---- MODULE Spec2Model ----
(***************************************************************************)
(* Session / authorization state machine of the creche portal front end:   *)
(* the token helpers and axios interceptors of api/http, the AuthProvider  *)
(* (startup identity check, login, register, logout), the fetch based      *)
(* client of api/client and the route guards of App.tsx.                   *)
(*                                                                         *)
(* The browser runs one macrotask at a time.  A handler (an effect body, a *)
(* click handler, the continuation of an await on a response together with *)
(* the promise callbacks chained on it) runs to its next await without     *)
(* interleaving, so each of them is one action.  The backend is external:  *)
(* the action that handles a response chooses what the backend answered.   *)
(***************************************************************************)
EXTENDS Naturals, FiniteSets, Sequences, TLC

VARIABLES
    storage,      \* localStorage["creche_token"], NoToken when the key is unset
    storageDown,  \* TRUE when every localStorage access throws
    user,         \* AuthProvider state `user`
    loading,      \* AuthProvider state `loading`
    startup,      \* position of the mount effect of AuthProvider and its local `token`
    procs,        \* the invocations of login()/register(): position and outcome
    net,          \* the requests handed to the network and not yet answered
    sent,         \* the requests the last step handed to the network, as they left
    pageErr,      \* AdminViewingsPage state `err`
    page,         \* the page component the router has mounted, "none" between two
    ui,           \* the hook state of the mounted page component
    calls,        \* the async handlers of page components waiting at an await
    late,         \* the setters the last step called on an unmounted component
    location      \* the paths the router went through since the last navigation

sessionVars == <<storage, storageDown, user, loading, startup, procs, pageErr>>
pageVars == <<page, ui, calls, late>>
vars == <<storage, storageDown, user, loading, startup, procs, net, sent, pageErr,
          page, ui, calls, late, location>>

\* ---------------------------------------------------------------- bounds
MaxLogins == 2

\* ---------------------------------------------------------------- values
Accounts == {"admin@x.com", "user@x.com"}
Roles == {"ADMIN", "USER", "PARENT"}

RoleOf == [a \in Accounts |-> IF a = "admin@x.com" THEN "ADMIN" ELSE "USER"]

TokenOf == [a \in Accounts |-> IF a = "admin@x.com" THEN "tok-admin" ELSE "tok-user"]

StaleToken == "tok-stale"
NoToken == "<null>"
Tokens == {TokenOf[a] : a \in Accounts}

User(a) == [email |-> a, role |-> RoleOf[a]]
NoUser == [email |-> "<null>", role |-> "<null>"]
Users == {User(a) : a \in Accounts}

ErrorStatus == {"401", "500", "network"}
NoErr == "<null>"

Procs == 1..MaxLogins
StartupOwner == <<"startup", 0>>
PageOwner == <<"page", 0>>
LoginOwner(i) == <<"login", i>>

\* ---------------------------------------------------------------- api/http
Truthy(token) == token # NoToken /\ token # ""

\* localStorage: each call returns normally or throws
Throws == "<throws>"
getItem(st, down) == IF down THEN Throws ELSE st
setItem(st, down, token) == IF down THEN Throws ELSE token
removeItem(st, down) == IF down THEN Throws ELSE NoToken

\* try { return localStorage.getItem(TOKEN_KEY) } catch { return null }
getToken(st, down) ==
    IF getItem(st, down) = Throws THEN NoToken ELSE getItem(st, down)

\* setToken without its try/catch: the exception of localStorage escapes
setToken_NoCatch(st, down, token) ==
    IF Truthy(token) THEN setItem(st, down, token) ELSE removeItem(st, down)

\* setToken without the test of its argument: whatever is given is stored
setToken_StoresFalsy(st, down, token) ==
    IF setItem(st, down, token) = Throws THEN st ELSE setItem(st, down, token)

\* try { if (token) setItem(...) else removeItem(...) } catch { /* ignore */ }
\* the value is the content of the store after the call
setToken(st, down, token) ==
    LET done == IF Truthy(token) THEN setItem(st, down, token) ELSE removeItem(st, down)
    IN  IF done = Throws THEN st ELSE done

\* clearToken() that leaves the stored token in place
clearToken_Noop(st, down) == st

clearToken(st, down) == setToken(st, down, NoToken)

NoHeader == <<>>
Bearer(token) == <<"Bearer", token>>

\* request interceptor: the Authorization header of a request sent through http
requestInterceptor(st, down) ==
    IF Truthy(getToken(st, down)) THEN Bearer(getToken(st, down)) ELSE NoHeader

\* a request sent through the axios instance
httpRequest(owner, method, path, body, st, down) ==
    [owner |-> owner, method |-> method, path |-> path, body |-> body,
     auth |-> requestInterceptor(st, down)]

\* a request sent through the fetch based client: Content-Type only
request(owner, method, path) ==
    [owner |-> owner, method |-> method, path |-> path, body |-> "",
     auth |-> NoHeader]

\* the response interceptor: (res) => res, (err) => Promise.reject(err)
responseInterceptor(status) ==
    IF status = "200" THEN [rejected |-> FALSE, status |-> status]
    ELSE [rejected |-> TRUE, status |-> status]

\* the endpoints whose answer is computed from the Authorization header
AuthenticatedPaths == {"/api/auth/me"}
Unread == <<"unread">>

\* a request while it waits for its answer: the header is kept where the
\* answer is computed from it
Pending(r) == IF r.path \in AuthenticatedPaths THEN r ELSE [r EXCEPT !.auth = Unread]

\* hand req to the network, next to the requests in base
Send(base, req) ==
    /\ sent' = {req}
    /\ net' = base \cup {Pending(req)}

InFlight(owner, path) == {r \in net : r.owner = owner /\ r.path = path}

\* ---------------------------------------------------------------- backend
AccountOfToken(t) == CHOOSE a \in Accounts : TokenOf[a] = t

\* the tokens the backend may return for a successful POST /api/auth/login
loginResponse(r) == {TokenOf[r.body]}

\* the identities the backend may return for a successful GET /api/auth/me
meResponse(r) == {User(AccountOfToken(t)) : t \in {x \in Tokens : r.auth = Bearer(x)}}

\* ---------------------------------------------------------------- AuthProvider
IdleProc == [pc |-> "idle", email |-> "", error |-> ""]

\* the mount effect without setLoading(false) in its else branch
startupEffect_NoSetLoading ==
    /\ startup.pc = "init"
    /\ LET token == getToken(storage, storageDown) IN
       IF Truthy(token)
       THEN /\ Send(net, httpRequest(StartupOwner, "GET", "/api/auth/me", "",
                                            storage, storageDown))
            /\ startup' = [pc |-> "fetching", token |-> token]
       ELSE /\ startup' = [pc |-> "doneNoToken", token |-> NoToken]
            /\ UNCHANGED net
            /\ sent' = {}
    /\ UNCHANGED <<storage, storageDown, user, loading, procs, pageErr>>
    /\ UNCHANGED <<pageVars, location>>

\* the mount effect that fetches the identity whether or not a token is stored
startupEffect_AlwaysFetch ==
    /\ startup.pc = "init"
    /\ Send(net, httpRequest(StartupOwner, "GET", "/api/auth/me", "",
                                     storage, storageDown))
    /\ startup' = [pc |-> "fetching", token |-> getToken(storage, storageDown)]
    /\ UNCHANGED <<storage, storageDown, user, loading, procs, pageErr>>
    /\ UNCHANGED <<pageVars, location>>

\* mount effect: const token = getToken(); if (token) http.get(...) else setLoading(false)
startupEffect ==
    /\ startup.pc = "init"
    /\ LET token == getToken(storage, storageDown) IN
       IF Truthy(token)
       THEN /\ Send(net, httpRequest(StartupOwner, "GET", "/api/auth/me", "",
                                            storage, storageDown))
            /\ startup' = [pc |-> "fetching", token |-> token]
            /\ UNCHANGED loading
       ELSE /\ loading' = FALSE
            /\ startup' = [pc |-> "doneNoToken", token |-> NoToken]
            /\ UNCHANGED net
            /\ sent' = {}
    /\ UNCHANGED <<storage, storageDown, user, procs, pageErr>>
    /\ UNCHANGED <<pageVars, location>>

\* the success path without setUser(res.data)
startupThen_NoSetUser ==
    /\ startup.pc = "fetching"
    /\ \E r \in InFlight(StartupOwner, "/api/auth/me") :
       \E me \in meResponse(r) :
         /\ loading' = FALSE
         /\ net' = net \ {r}
         /\ startup' = [pc |-> "doneOk", token |-> NoToken]
    /\ UNCHANGED <<storage, storageDown, user, procs, pageErr>>
    /\ sent' = {}
    /\ UNCHANGED <<pageVars, location>>

\* .then(res => setUser(res.data)).finally(() => setLoading(false))
startupThen ==
    /\ startup.pc = "fetching"
    /\ \E r \in InFlight(StartupOwner, "/api/auth/me") :
       \E me \in meResponse(r) :
         /\ user' = me
         /\ loading' = FALSE
         /\ net' = net \ {r}
         /\ startup' = [pc |-> "doneOk", token |-> NoToken]
    /\ UNCHANGED <<storage, storageDown, procs, pageErr>>
    /\ sent' = {}
    /\ UNCHANGED <<pageVars, location>>

\* the failure path without clearToken()
startupCatch_KeepToken(e) ==
    /\ e \in ErrorStatus
    /\ startup.pc = "fetching"
    /\ \E r \in InFlight(StartupOwner, "/api/auth/me") :
         /\ user' = NoUser
         /\ loading' = FALSE
         /\ net' = net \ {r}
         /\ startup' = [pc |-> "doneFail", token |-> NoToken]
    /\ UNCHANGED <<storage, storageDown, procs, pageErr>>
    /\ sent' = {}
    /\ UNCHANGED <<pageVars, location>>

\* the failure path without the .finally that ends loading
startupCatch_NoFinally(e) ==
    /\ e \in ErrorStatus
    /\ startup.pc = "fetching"
    /\ \E r \in InFlight(StartupOwner, "/api/auth/me") :
         /\ storage' = clearToken(storage, storageDown)
         /\ user' = NoUser
         /\ net' = net \ {r}
         /\ startup' = [pc |-> "doneFail", token |-> NoToken]
    /\ UNCHANGED <<storageDown, loading, procs, pageErr>>
    /\ sent' = {}
    /\ UNCHANGED <<pageVars, location>>

\* .catch(() => { clearToken(); setUser(null); }).finally(() => setLoading(false))
startupCatch(e) ==
    /\ e \in ErrorStatus
    /\ startup.pc = "fetching"
    /\ \E r \in InFlight(StartupOwner, "/api/auth/me") :
         /\ storage' = clearToken(storage, storageDown)
         /\ user' = NoUser
         /\ loading' = FALSE
         /\ net' = net \ {r}
         /\ startup' = [pc |-> "doneFail", token |-> NoToken]
    /\ UNCHANGED <<storageDown, procs, pageErr>>
    /\ sent' = {}
    /\ UNCHANGED <<pageVars, location>>

\* an invocation needs the mount effect to have run and takes the first record
\* of procs that is not in use by an invocation still in flight
Settled(i) == procs[i].pc \in {"idle", "resolved", "rejected"}
CanInvoke(i) ==
    /\ startup.pc # "init"
    /\ Settled(i)
    /\ \A j \in Procs : j < i => ~Settled(j)

\* login(email, password), up to its first await
login(i, email) ==
    /\ CanInvoke(i)
    /\ Send(net, httpRequest(LoginOwner(i), "POST", "/api/auth/login", email,
                                    storage, storageDown))
    /\ procs' = [procs EXCEPT ![i] = [pc |-> "exchange", email |-> email, error |-> ""]]
    /\ UNCHANGED <<storage, storageDown, user, loading, startup, pageErr>>
    /\ UNCHANGED <<pageVars, location>>

\* the exchange continuation that sends the identity fetch before it stores the token
loginExchangeOk_FetchBeforePersist(i) ==
    /\ procs[i].pc = "exchange"
    /\ \E r \in InFlight(LoginOwner(i), "/api/auth/login") :
       \E token \in loginResponse(r) :
         /\ storage' = setToken(storage, storageDown, token)
         /\ Send(net \ {r}, httpRequest(LoginOwner(i), "GET", "/api/auth/me", "",
                                       storage, storageDown))
    /\ procs' = [procs EXCEPT ![i] = [pc |-> "fetchMe", email |-> "", error |-> ""]]
    /\ UNCHANGED <<storageDown, user, loading, startup, pageErr>>
    /\ UNCHANGED <<pageVars, location>>

\* setToken(res.data.token); const me = await http.get("/api/auth/me")
\* (an exception escaping setToken would reject the async function)
loginExchangeOk(i) ==
    /\ procs[i].pc = "exchange"
    /\ \E r \in InFlight(LoginOwner(i), "/api/auth/login") :
       \E token \in loginResponse(r) :
         IF setToken(storage, storageDown, token) = Throws
         THEN /\ net' = net \ {r}
              /\ sent' = {}
              /\ procs' = [procs EXCEPT ![i] =
                             [pc |-> "rejected", email |-> "", error |-> Throws]]
              /\ UNCHANGED storage
         ELSE /\ storage' = setToken(storage, storageDown, token)
              /\ Send(net \ {r}, httpRequest(LoginOwner(i), "GET", "/api/auth/me", "",
                                            storage', storageDown))
              /\ procs' = [procs EXCEPT ![i] =
                             [pc |-> "fetchMe", email |-> "", error |-> ""]]
    /\ UNCHANGED <<storageDown, user, loading, startup, pageErr>>
    /\ UNCHANGED <<pageVars, location>>

\* a failed exchange that also drops the stored token
loginExchangeFail_ClearsToken(i, e) ==
    /\ procs[i].pc = "exchange"
    /\ \E r \in InFlight(LoginOwner(i), "/api/auth/login") :
         net' = net \ {r}
    /\ storage' = clearToken(storage, storageDown)
    /\ procs' = [procs EXCEPT ![i] = [pc |-> "rejected", email |-> "", error |-> e]]
    /\ UNCHANGED <<storageDown, user, loading, startup, pageErr>>
    /\ sent' = {}
    /\ UNCHANGED <<pageVars, location>>

\* the awaited post rejected: login rejects with the error
loginExchangeFail(i, e) ==
    /\ procs[i].pc = "exchange"
    /\ responseInterceptor(e).rejected
    /\ \E r \in InFlight(LoginOwner(i), "/api/auth/login") :
         net' = net \ {r}
    /\ procs' = [procs EXCEPT ![i] = [pc |-> "rejected", email |-> "", error |-> responseInterceptor(e).status]]
    /\ UNCHANGED <<storage, storageDown, user, loading, startup, pageErr>>
    /\ sent' = {}
    /\ UNCHANGED <<pageVars, location>>

\* an identity answer that is dropped when an Identity is already set
loginMeOk_KeepsFirst(i) ==
    /\ procs[i].pc = "fetchMe"
    /\ \E r \in InFlight(LoginOwner(i), "/api/auth/me") :
       \E me \in meResponse(r) :
         /\ user' = IF user = NoUser THEN me ELSE user
         /\ net' = net \ {r}
    /\ procs' = [procs EXCEPT ![i] = [pc |-> "resolved", email |-> "", error |-> ""]]
    /\ UNCHANGED <<storage, storageDown, loading, startup, pageErr>>
    /\ sent' = {}
    /\ UNCHANGED <<pageVars, location>>

\* setUser(me.data); login resolves
loginMeOk(i) ==
    /\ procs[i].pc = "fetchMe"
    /\ \E r \in InFlight(LoginOwner(i), "/api/auth/me") :
       \E me \in meResponse(r) :
         /\ user' = me
         /\ net' = net \ {r}
    /\ procs' = [procs EXCEPT ![i] = [pc |-> "resolved", email |-> "", error |-> ""]]
    /\ UNCHANGED <<storage, storageDown, loading, startup, pageErr>>
    /\ sent' = {}
    /\ UNCHANGED <<pageVars, location>>

\* a failed identity fetch that also drops the token the exchange stored
loginMeFail_ClearsToken(i, e) ==
    /\ procs[i].pc = "fetchMe"
    /\ \E r \in InFlight(LoginOwner(i), "/api/auth/me") :
         net' = net \ {r}
    /\ storage' = clearToken(storage, storageDown)
    /\ procs' = [procs EXCEPT ![i] = [pc |-> "rejected", email |-> "", error |-> e]]
    /\ UNCHANGED <<storageDown, user, loading, startup, pageErr>>
    /\ sent' = {}
    /\ UNCHANGED <<pageVars, location>>

\* the awaited get rejected: login rejects with the error
loginMeFail(i, e) ==
    /\ procs[i].pc = "fetchMe"
    /\ responseInterceptor(e).rejected
    /\ \E r \in InFlight(LoginOwner(i), "/api/auth/me") :
         net' = net \ {r}
    /\ procs' = [procs EXCEPT ![i] = [pc |-> "rejected", email |-> "", error |-> responseInterceptor(e).status]]
    /\ UNCHANGED <<storage, storageDown, user, loading, startup, pageErr>>
    /\ sent' = {}
    /\ UNCHANGED <<pageVars, location>>

\* register(fullName, email, password), up to its first await
register(i, email) ==
    /\ CanInvoke(i)
    /\ Send(net, httpRequest(LoginOwner(i), "POST", "/api/auth/register", email,
                                    storage, storageDown))
    /\ procs' = [procs EXCEPT ![i] = [pc |-> "creating", email |-> email, error |-> ""]]
    /\ UNCHANGED <<storage, storageDown, user, loading, startup, pageErr>>
    /\ UNCHANGED <<pageVars, location>>

\* a register whose chained login uses other credentials than the ones given
registerOk_OtherCredentials(i) ==
    /\ procs[i].pc = "creating"
    /\ \E r \in InFlight(LoginOwner(i), "/api/auth/register") :
         Send(net \ {r}, httpRequest(LoginOwner(i), "POST", "/api/auth/login",
                                  "admin@x.com", storage, storageDown))
    /\ procs' = [procs EXCEPT ![i].pc = "exchange"]
    /\ UNCHANGED <<storage, storageDown, user, loading, startup, pageErr>>
    /\ UNCHANGED <<pageVars, location>>

\* await login(email, password) after the account was created
registerOk(i) ==
    /\ procs[i].pc = "creating"
    /\ \E r \in InFlight(LoginOwner(i), "/api/auth/register") :
         Send(net \ {r}, httpRequest(LoginOwner(i), "POST", "/api/auth/login",
                                  procs[i].email, storage, storageDown))
    /\ procs' = [procs EXCEPT ![i].pc = "exchange"]
    /\ UNCHANGED <<storage, storageDown, user, loading, startup, pageErr>>
    /\ UNCHANGED <<pageVars, location>>

\* a failed account creation after which the login request is sent all the same
registerFail_StillLogsIn(i, e) ==
    /\ procs[i].pc = "creating"
    /\ \E r \in InFlight(LoginOwner(i), "/api/auth/register") :
         Send(net \ {r}, httpRequest(LoginOwner(i), "POST", "/api/auth/login",
                                  procs[i].email, storage, storageDown))
    /\ procs' = [procs EXCEPT ![i] = [pc |-> "rejected", email |-> "", error |-> e]]
    /\ UNCHANGED <<storage, storageDown, user, loading, startup, pageErr>>
    /\ UNCHANGED <<pageVars, location>>

\* the awaited post rejected: register rejects with the error
registerFail(i, e) ==
    /\ procs[i].pc = "creating"
    /\ responseInterceptor(e).rejected
    /\ \E r \in InFlight(LoginOwner(i), "/api/auth/register") :
         net' = net \ {r}
    /\ procs' = [procs EXCEPT ![i] = [pc |-> "rejected", email |-> "", error |-> responseInterceptor(e).status]]
    /\ UNCHANGED <<storage, storageDown, user, loading, startup, pageErr>>
    /\ sent' = {}
    /\ UNCHANGED <<pageVars, location>>

\* the Logout button of NavBar, rendered while user is set:
\* logout(): clearToken(); setUser(null)
logout ==
    /\ startup.pc # "init"
    /\ user # NoUser
    /\ storage' = clearToken(storage, storageDown)
    /\ user' = NoUser
    /\ UNCHANGED <<storageDown, loading, startup, procs, net, pageErr>>
    /\ sent' = {}
    /\ UNCHANGED <<pageVars, location>>

\* ---------------------------------------------------------------- App.tsx guards
\* the guard without its user check
RequireAuth_NoUserCheck(u, l) ==
    IF l THEN "checking"
    ELSE "children"

RequireAuth(u, l) ==
    IF l THEN "checking"
    ELSE IF u = NoUser THEN "/login"
    ELSE "children"

\* the guard that looks at the user before it looks at loading
RequireAdmin_UserFirst(u, l) ==
    IF u = NoUser THEN "/login"
    ELSE IF l THEN "checking"
    ELSE IF u.role # "ADMIN" THEN "/"
    ELSE "children"

RequireAdmin(u, l) ==
    IF l THEN "checking"
    ELSE IF u = NoUser THEN "/login"
    ELSE IF u.role # "ADMIN" THEN "/"
    ELSE "children"

\* the guard that sends a wrong role to the login page
RequireUser_MismatchToLogin(u, l) ==
    IF l THEN "checking"
    ELSE IF u = NoUser THEN "/login"
    ELSE IF u.role # "USER" THEN "/login"
    ELSE "children"

RequireUser(u, l) ==
    IF l THEN "checking"
    ELSE IF u = NoUser THEN "/login"
    ELSE IF u.role # "USER" THEN "/"
    ELSE "children"

\* the route table of App
PublicPaths == {"/", "/login", "/register"}
AdminPaths == {"/admin/users", "/admin/register/parent", "/admin/register/child",
               "/admin/parents", "/admin/children", "/admin/viewings"}
RoutePaths == PublicPaths \cup AdminPaths \cup
              {"/me", "/user/viewings", "/parent/viewings", "/no/such/page"}

\* the route table with /register behind RequireAuth
Route_RegisterGuarded(path, u, l) ==
    IF path \in {"/", "/login"} THEN "children"
    ELSE IF path \in {"/me", "/register"} THEN RequireAuth(u, l)
    ELSE IF path = "/user/viewings" THEN RequireUser(u, l)
    ELSE IF path = "/parent/viewings" THEN "/user/viewings"
    ELSE IF path \in AdminPaths THEN RequireAdmin(u, l)
    ELSE "children"

\* the route table with /login behind RequireAuth
Route_LoginGuarded(path, u, l) ==
    IF path \in {"/", "/register"} THEN "children"
    ELSE IF path \in {"/me", "/login"} THEN RequireAuth(u, l)
    ELSE IF path = "/user/viewings" THEN RequireUser(u, l)
    ELSE IF path = "/parent/viewings" THEN "/user/viewings"
    ELSE IF path \in AdminPaths THEN RequireAdmin(u, l)
    ELSE "children"

\* what the element of the matching <Route> renders: "children" (the view),
\* "checking" (the placeholder) or the path of a <Navigate replace>
Route(path, u, l) ==
    IF path \in PublicPaths THEN "children"
    ELSE IF path = "/me" THEN RequireAuth(u, l)
    ELSE IF path = "/user/viewings" THEN RequireUser(u, l)
    ELSE IF path = "/parent/viewings" THEN "/user/viewings"
    ELSE IF path \in AdminPaths THEN RequireAdmin(u, l)
    ELSE "children"

\* the router follows a <Navigate replace> by rendering the route of its
\* target: the paths visited from path on, the first MaxHops redirects at most
MaxHops == 3
RECURSIVE Navigate(_, _, _, _)
Navigate(path, u, l, hops) ==
    IF Route(path, u, l) \in {"children", "checking"} \/ hops = 0
    THEN <<path>>
    ELSE <<path>> \o Navigate(Route(path, u, l), u, l, hops - 1)

\* the address bar or a <Link>: the router renders the route of path
open(path) ==
    /\ location' = <<path>>
    /\ sent' = {}
    /\ UNCHANGED <<sessionVars, pageVars, net>>

\* the element of the current route is a <Navigate to=... replace />: the
\* router goes to its target and renders that route
redirect ==
    /\ location # <<>>
    /\ Len(location) <= MaxHops
    /\ Route(location[Len(location)], user, loading) \notin {"children", "checking"}
    /\ location' = Append(location, Route(location[Len(location)], user, loading))
    /\ sent' = {}
    /\ UNCHANGED <<sessionVars, pageVars, net>>

\* ---------------------------------------------------------------- pages
DomainPath == "/api/admin/viewings"
ClientPath == "/api/parents"
PageIdle == {r \in net : r.owner = PageOwner} = {}

\* the message load() stores: e?.response?.data?.message || e?.message || "Failed ..."
ErrMessage(e) == "Failed to load viewings"

\* AdminViewingsPage, mounted under RequireAdmin: load() up to its await,
\* setErr(null) and the get through the axios instance
pageRequest ==
    /\ startup.pc # "init"
    /\ RequireAdmin(user, loading) = "children"
    /\ PageIdle
    /\ Send(net, httpRequest(PageOwner, "GET", DomainPath, "", storage, storageDown))
    /\ pageErr' = NoErr
    /\ UNCHANGED <<storage, storageDown, user, loading, startup, procs>>
    /\ UNCHANGED <<pageVars, location>>

\* listParents() of the fetch based client
clientRequest ==
    /\ startup.pc # "init"
    /\ PageIdle
    /\ Send(net, request(PageOwner, "GET", ClientPath))
    /\ UNCHANGED <<storage, storageDown, user, loading, startup, procs, pageErr>>
    /\ UNCHANGED <<pageVars, location>>

\* a response interceptor that logs the user out on 401
pageResponse_LogoutOn401(status) ==
    /\ \E r \in InFlight(PageOwner, DomainPath) :
         net' = net \ {r}
    /\ pageErr' = IF responseInterceptor(status).rejected THEN ErrMessage(status) ELSE pageErr
    /\ storage' = IF status = "401" THEN clearToken(storage, storageDown) ELSE storage
    /\ user' = IF status = "401" THEN NoUser ELSE user
    /\ UNCHANGED <<storageDown, loading, startup, procs>>
    /\ sent' = {}
    /\ UNCHANGED <<pageVars, location>>

\* load() after its await: the interceptor passes the response or the error
\* through; setRows(res.data) or setErr(message)
pageResponse(status) ==
    /\ \E r \in InFlight(PageOwner, DomainPath) :
         net' = net \ {r}
    /\ pageErr' = IF responseInterceptor(status).rejected THEN ErrMessage(status) ELSE pageErr
    /\ UNCHANGED <<storage, storageDown, user, loading, startup, procs>>
    /\ sent' = {}
    /\ UNCHANGED <<pageVars, location>>

\* request() returns the parsed body or throws Error(await res.text())
clientResponse ==
    /\ \E r \in InFlight(PageOwner, ClientPath) :
         net' = net \ {r}
    /\ UNCHANGED <<storage, storageDown, user, loading, startup, procs, pageErr>>
    /\ sent' = {}
    /\ UNCHANGED <<pageVars, location>>

\* the page is loaded again: the provider is constructed anew, localStorage persists
reload ==
    /\ startup.pc # "init"
    /\ user' = NoUser
    /\ loading' = TRUE
    /\ startup' = [pc |-> "init", token |-> NoToken]
    /\ procs' = [i \in Procs |-> IdleProc]
    /\ net' = {}
    /\ pageErr' = NoErr
    /\ UNCHANGED <<storage, storageDown>>
    /\ sent' = {}
    /\ UNCHANGED <<pageVars, location>>

\* ---------------------------------------------------------------- page components
\* The router mounts one page component at a time.  The hook state of a
\* component lives as long as it is mounted; an async handler that was started
\* by it goes on after the unmount, and what it then calls are setters of a
\* component that is no longer there.
MaxCalls == 2
Slots == 1..MaxCalls
Rows == {"r1", "r2"}

ChildPages == {"ChildRegisterPage", "ChildRegisterPageEarlier"}
SubmitPages == {"ParentRegisterPage", "ParentChildRequestPage"}
FormPages == ChildPages \cup SubmitPages
RowPages == {"AdminUsersPage", "AdminChildRequestsPage"}
Pages == FormPages \cup RowPages \cup {"AdminViewingsPage"}

\* the pages whose mount effect loads a list
ListPages == Pages \ {"ParentRegisterPage"}

\* the list each page loads
ListPath(p) ==
    CASE p \in ChildPages -> "/api/admin/parents"
      [] p = "ParentChildRequestPage" -> "/api/parent/child-requests"
      [] p = "AdminUsersPage" -> "/api/admin/users"
      [] p = "AdminChildRequestsPage" -> "/api/admin/child-requests"
      [] OTHER -> DomainPath

\* what a form holds: nothing, required fields of blanks only (or an email
\* that is none), everything in order, everything but the password
Forms == {"blank", "spaces", "good", "noPassword"}

\* the field check of each page: requiredMissing / isEmailValid of
\* ParentRegisterPage, requiredMissing of ParentChildRequestPage, isValid of
\* ChildRegisterPage; the earlier ChildRegisterPage has the `required`
\* attribute of its inputs only
FormValid(p, form) ==
    IF p = "ChildRegisterPageEarlier" THEN form # "blank"
    ELSE form = "good"

ValidationMessage(p) ==
    IF p = "ParentRegisterPage" THEN "Please fix the highlighted fields."
    ELSE "Please fill in the required fields."
\* e?.response?.data?.message || e?.message || ...: the message of the error
\* of the request that was rejected
FailMessage(pc) ==
    CASE pc = "create" -> "POST child failed"
      [] pc = "link" -> "PATCH parent failed"
      [] pc = "post" -> "POST failed"
      [] pc = "patch" -> "PATCH failed"
      [] OTHER -> "GET failed"
Notice == "notice"
Linked == "Child created and linked to parent."

InitUi ==
    [form |-> "blank", parent |-> "", busy |-> FALSE, error |-> NoErr,
     notice |-> NoErr, created |-> "", loadingList |-> FALSE, listed |-> FALSE,
     marker |-> ""]

IdleCall == [pc |-> "idle", page |-> "none", row |-> "", parent |-> "", mounted |-> FALSE]
NewCall(pc, p, row, parent) ==
    [pc |-> pc, page |-> p, row |-> row, parent |-> parent, mounted |-> TRUE]

CallOwner(k) == <<"call", k>>
FreeSlot(k) == calls[k].pc = "idle" /\ \A j \in Slots : j < k => calls[j].pc # "idle"
RequestOf(k) == {r \in net : r.owner = CallOwner(k)}

\* the setters a continuation calls: they change the hook state of the
\* component that started the handler while it is mounted
SetState(k, newUi, setters) ==
    IF calls[k].mounted
    THEN ui' = newUi /\ late' = {}
    ELSE ui' = ui /\ late' = setters

\* a list load up to its await
LoadStart(p, u) ==
    CASE p \in ChildPages \cup {"ParentChildRequestPage"} -> [u EXCEPT !.loadingList = TRUE]
      [] p = "AdminUsersPage" -> [u EXCEPT !.error = NoErr]
      [] p = "AdminChildRequestsPage" -> [u EXCEPT !.loadingList = TRUE, !.error = NoErr]
      [] OTHER -> [u EXCEPT !.busy = TRUE, !.error = NoErr]

LoadStartSetters(p) ==
    CASE p \in ChildPages \cup {"ParentChildRequestPage"} -> {"setLoading"}
      [] p = "AdminUsersPage" -> {"setErr"}
      [] p = "AdminChildRequestsPage" -> {"setLoading", "setErr"}
      [] OTHER -> {"setBusy", "setErr"}

\* a list load after its await, the list answered (empty or not)
LoadOk(p, u, empty) ==
    CASE p = "ChildRegisterPageEarlier" -> [u EXCEPT !.listed = ~empty, !.loadingList = FALSE]
      [] p = "ChildRegisterPage" ->
           [u EXCEPT !.listed = ~empty, !.loadingList = FALSE,
                     !.notice = IF empty THEN Notice ELSE @]
      [] p \in {"ParentChildRequestPage", "AdminChildRequestsPage"} ->
           [u EXCEPT !.listed = ~empty, !.loadingList = FALSE]
      [] p = "AdminUsersPage" -> [u EXCEPT !.listed = ~empty]
      [] OTHER -> [u EXCEPT !.listed = ~empty, !.busy = FALSE]

\* the earlier ChildRegisterPage calls its setters under `if (alive)`
LoadOkSetters(p) ==
    CASE p = "ChildRegisterPageEarlier" -> {}
      [] p = "AdminUsersPage" -> {"setRows"}
      [] p = "AdminViewingsPage" -> {"setRows", "setBusy"}
      [] OTHER -> {"setRows", "setLoading"}

\* a list load after its await, the request failed
LoadFail(p, u) ==
    CASE p \in {"ChildRegisterPageEarlier", "ParentChildRequestPage"} ->
           [u EXCEPT !.loadingList = FALSE]
      [] p = "ChildRegisterPage" -> [u EXCEPT !.notice = Notice, !.loadingList = FALSE]
      [] p = "AdminUsersPage" -> [u EXCEPT !.error = FailMessage("load")]
      [] p = "AdminChildRequestsPage" -> [u EXCEPT !.error = FailMessage("load"), !.loadingList = FALSE]
      [] OTHER -> [u EXCEPT !.error = FailMessage("load"), !.busy = FALSE]

LoadFailSetters(p) ==
    CASE p = "ChildRegisterPageEarlier" -> {}
      [] p = "ParentChildRequestPage" -> {"setLoading"}
      [] p = "ChildRegisterPage" -> {"setNotice", "setLoading"}
      [] p = "AdminUsersPage" -> {"setErr"}
      [] p = "AdminChildRequestsPage" -> {"setErr", "setLoading"}
      [] OTHER -> {"setErr", "setBusy"}

\* the router renders p: fresh hook state, then the mount effect
mount(p) ==
    /\ page = "none"
    /\ page' = p
    /\ late' = {}
    /\ IF p \in ListPages
       THEN \E k \in Slots :
              /\ FreeSlot(k)
              /\ ui' = LoadStart(p, InitUi)
              /\ calls' = [calls EXCEPT ![k] = NewCall("load", p, "", "")]
              /\ Send(net, httpRequest(CallOwner(k), "GET", ListPath(p), "",
                                       storage, storageDown))
       ELSE /\ ui' = InitUi
            /\ UNCHANGED <<calls, net>>
            /\ sent' = {}
    /\ UNCHANGED <<sessionVars, location>>

\* the router leaves the page: the effect cleanups run (alive = false,
\* clearInterval) and the hook state is dropped
unmount ==
    /\ page # "none"
    /\ page' = "none"
    /\ ui' = InitUi
    /\ calls' = [k \in Slots |-> [calls[k] EXCEPT !.mounted = FALSE]]
    /\ late' = {}
    /\ sent' = {}
    /\ UNCHANGED net
    /\ UNCHANGED <<sessionVars, location>>

\* AdminViewingsPage: setInterval(load, 15000) fires while the page is mounted
tick ==
    /\ page = "AdminViewingsPage"
    /\ \E k \in Slots :
         /\ FreeSlot(k)
         /\ calls' = [calls EXCEPT ![k] = NewCall("load", page, "", "")]
         /\ Send(net, httpRequest(CallOwner(k), "GET", ListPath(page), "",
                                  storage, storageDown))
    /\ ui' = LoadStart(page, ui)
    /\ late' = {}
    /\ UNCHANGED page
    /\ UNCHANGED <<sessionVars, location>>

\* a list load resumes with the list
loadOk(k) ==
    /\ calls[k].pc = "load"
    /\ \E r \in RequestOf(k) : net' = net \ {r}
    /\ \E empty \in BOOLEAN :
         SetState(k, LoadOk(calls[k].page, ui, empty), LoadOkSetters(calls[k].page))
    /\ calls' = [calls EXCEPT ![k] = IdleCall]
    /\ sent' = {}
    /\ UNCHANGED page
    /\ UNCHANGED <<sessionVars, location>>

\* a list load resumes in its catch
loadFail(k, e) ==
    /\ calls[k].pc = "load"
    /\ responseInterceptor(e).rejected
    /\ \E r \in RequestOf(k) : net' = net \ {r}
    /\ SetState(k, LoadFail(calls[k].page, ui), LoadFailSetters(calls[k].page))
    /\ calls' = [calls EXCEPT ![k] = IdleCall]
    /\ sent' = {}
    /\ UNCHANGED page
    /\ UNCHANGED <<sessionVars, location>>

\* onText / onChange: the user types into the form
edit(form) ==
    /\ page \in FormPages
    /\ form \in {"blank", "spaces", "good"}
    /\ form # ui.form
    /\ ui' = [ui EXCEPT !.form = form]
    /\ late' = {}
    /\ sent' = {}
    /\ UNCHANGED <<page, calls, net>>
    /\ UNCHANGED <<sessionVars, location>>

\* the parent <select> of ChildRegisterPage, disabled while the parents load
selectParent(parent) ==
    /\ page \in ChildPages
    /\ ~ui.loadingList
    /\ parent \in {"", "p1"}
    /\ parent # "" => ui.listed
    /\ parent # ui.parent
    /\ ui' = [ui EXCEPT !.parent = parent]
    /\ late' = {}
    /\ sent' = {}
    /\ UNCHANGED <<page, calls, net>>
    /\ UNCHANGED <<sessionVars, location>>

\* ChildRegisterPage.onSubmit up to its first await; the submit button is
\* disabled={busy || !isValid} (earlier version: disabled={busy}, inputs required)
onSubmit ==
    /\ page \in ChildPages
    /\ ~ui.busy
    /\ FormValid(page, ui.form)
    /\ \E k \in Slots :
         /\ FreeSlot(k)
         /\ calls' = [calls EXCEPT ![k] = NewCall("create", page, "", ui.parent)]
         /\ Send(net, httpRequest(CallOwner(k), "POST", "/api/admin/children", ui.form,
                                  storage, storageDown))
    /\ ui' = [ui EXCEPT !.busy = TRUE, !.error = NoErr, !.created = "",
                        !.notice = IF page = "ChildRegisterPage" THEN NoErr ELSE @]
    /\ late' = {}
    /\ UNCHANGED page
    /\ UNCHANGED <<sessionVars, location>>

\* what onSubmit does once nothing is left to await
ChildDone(p, parent, u) ==
    [u EXCEPT !.created = "c1", !.form = "blank", !.busy = FALSE,
              !.notice = IF p # "ChildRegisterPage" THEN @
                         ELSE IF parent # "" THEN Linked ELSE Notice]
ChildDoneSetters == {"setCreated", "setForm", "setNotice", "setBusy"}

\* the create answer handled by reporting the child before it is linked
createOk_CreatedBeforeLink(k) ==
    /\ calls[k].pc = "create"
    /\ \E r \in RequestOf(k) :
         IF calls[k].parent # ""
         THEN /\ Send(net \ {r}, httpRequest(CallOwner(k), "PATCH",
                                             "/api/admin/children/:id/parent/:parentId",
                                             calls[k].parent, storage, storageDown))
              /\ calls' = [calls EXCEPT ![k].pc = "link"]
              /\ SetState(k, [ui EXCEPT !.created = "c1"], {"setCreated"})
         ELSE /\ net' = net \ {r}
              /\ sent' = {}
              /\ calls' = [calls EXCEPT ![k] = IdleCall]
              /\ SetState(k, ChildDone(calls[k].page, calls[k].parent, ui), ChildDoneSetters)
    /\ UNCHANGED page
    /\ UNCHANGED <<sessionVars, location>>

\* onSubmit after the POST: if (selectedParentId) await http.patch(...), else
\* setCreated, setForm, finally setBusy(false)
createOk(k) ==
    /\ calls[k].pc = "create"
    /\ \E r \in RequestOf(k) :
         IF calls[k].parent # ""
         THEN /\ Send(net \ {r}, httpRequest(CallOwner(k), "PATCH",
                                             "/api/admin/children/:id/parent/:parentId",
                                             calls[k].parent, storage, storageDown))
              /\ calls' = [calls EXCEPT ![k].pc = "link"]
              /\ UNCHANGED ui
              /\ late' = {}
         ELSE /\ net' = net \ {r}
              /\ sent' = {}
              /\ calls' = [calls EXCEPT ![k] = IdleCall]
              /\ SetState(k, ChildDone(calls[k].page, calls[k].parent, ui), ChildDoneSetters)
    /\ UNCHANGED page
    /\ UNCHANGED <<sessionVars, location>>

\* onSubmit: the POST rejected, catch setError(msg), finally setBusy(false)
createFail(k, e) ==
    /\ calls[k].pc = "create"
    /\ responseInterceptor(e).rejected
    /\ \E r \in RequestOf(k) : net' = net \ {r}
    /\ SetState(k, [ui EXCEPT !.error = FailMessage(calls[k].pc), !.busy = FALSE], {"setError", "setBusy"})
    /\ calls' = [calls EXCEPT ![k] = IdleCall]
    /\ sent' = {}
    /\ UNCHANGED page
    /\ UNCHANGED <<sessionVars, location>>

\* onSubmit after the PATCH: setCreated, setForm, finally setBusy(false)
linkOk(k) ==
    /\ calls[k].pc = "link"
    /\ \E r \in RequestOf(k) : net' = net \ {r}
    /\ SetState(k, ChildDone(calls[k].page, calls[k].parent, ui), ChildDoneSetters)
    /\ calls' = [calls EXCEPT ![k] = IdleCall]
    /\ sent' = {}
    /\ UNCHANGED page
    /\ UNCHANGED <<sessionVars, location>>

\* onSubmit: the PATCH rejected, catch setError(msg), finally setBusy(false)
linkFail(k, e) ==
    /\ calls[k].pc = "link"
    /\ responseInterceptor(e).rejected
    /\ \E r \in RequestOf(k) : net' = net \ {r}
    /\ SetState(k, [ui EXCEPT !.error = FailMessage(calls[k].pc), !.busy = FALSE], {"setError", "setBusy"})
    /\ calls' = [calls EXCEPT ![k] = IdleCall]
    /\ sent' = {}
    /\ UNCHANGED page
    /\ UNCHANGED <<sessionVars, location>>

\* the path a submit posts to
SubmitPath(p) ==
    IF p = "ParentRegisterPage" THEN "/api/admin/users" ELSE "/api/parent/child-requests"

\* a submit that posts whatever the form holds
submit_NoCheck ==
    /\ page \in SubmitPages
    /\ ~ui.busy
    /\ \E k \in Slots :
         /\ FreeSlot(k)
         /\ calls' = [calls EXCEPT ![k] = NewCall("post", page, "", "")]
         /\ Send(net, httpRequest(CallOwner(k), "POST", SubmitPath(page), ui.form,
                                  storage, storageDown))
    /\ ui' = [ui EXCEPT !.busy = TRUE, !.error = NoErr, !.notice = NoErr,
                        !.created = ""]
    /\ late' = {}
    /\ UNCHANGED page
    /\ UNCHANGED <<sessionVars, location>>

\* submit of ParentRegisterPage and of ParentChildRequestPage, called with the
\* submit event of the form while no submit is in progress:
\* if (formInvalid) { setError(...); return; }  setBusy(true); ... await http.post
submit ==
    /\ page \in SubmitPages
    /\ ~ui.busy
    /\ IF ~FormValid(page, ui.form)
       THEN /\ ui' = [ui EXCEPT !.error = ValidationMessage(page)]
            /\ UNCHANGED <<calls, net>>
            /\ sent' = {}
       ELSE /\ \E k \in Slots :
                 /\ FreeSlot(k)
                 /\ calls' = [calls EXCEPT ![k] = NewCall("post", page, "", "")]
                 /\ Send(net, httpRequest(CallOwner(k), "POST", SubmitPath(page), ui.form,
                                          storage, storageDown))
            /\ ui' = [ui EXCEPT !.busy = TRUE, !.error = NoErr, !.notice = NoErr,
                                !.created = ""]
    /\ late' = {}
    /\ UNCHANGED page
    /\ UNCHANGED <<sessionVars, location>>

\* submit after the POST.  ParentRegisterPage: setCreated, setNotice, password
\* cleared.  ParentChildRequestPage: setSuccess, setForm, loadMyRequests()
\* (which runs to its own await).  finally setBusy(false)
postOk(k) ==
    /\ calls[k].pc = "post"
    /\ \E r \in RequestOf(k) :
         IF calls[k].page = "ParentRegisterPage"
         THEN /\ net' = net \ {r}
              /\ sent' = {}
              /\ calls' = [calls EXCEPT ![k] = IdleCall]
              /\ SetState(k, [ui EXCEPT !.created = "u1", !.notice = Notice,
                                        !.form = "noPassword", !.busy = FALSE],
                          {"setCreated", "setNotice", "setForm", "setBusy"})
         ELSE /\ Send(net \ {r}, httpRequest(CallOwner(k), "GET", ListPath(calls[k].page),
                                             "", storage, storageDown))
              /\ calls' = [calls EXCEPT ![k].pc = "load"]
              /\ SetState(k, [ui EXCEPT !.notice = Notice, !.form = "blank",
                                        !.loadingList = TRUE, !.busy = FALSE],
                          {"setSuccess", "setForm", "setLoading", "setBusy"})
    /\ UNCHANGED page
    /\ UNCHANGED <<sessionVars, location>>

\* submit: the POST rejected, catch setError(msg), finally setBusy(false)
postFail(k, e) ==
    /\ calls[k].pc = "post"
    /\ responseInterceptor(e).rejected
    /\ \E r \in RequestOf(k) : net' = net \ {r}
    /\ SetState(k, [ui EXCEPT !.error = FailMessage(calls[k].pc), !.busy = FALSE], {"setError", "setBusy"})
    /\ calls' = [calls EXCEPT ![k] = IdleCall]
    /\ sent' = {}
    /\ UNCHANGED page
    /\ UNCHANGED <<sessionVars, location>>

\* AdminUsersPage.updateRole(id, role) up to its await; the select of a row
\* is disabled={saving === u.id}
updateRole(row) ==
    /\ page = "AdminUsersPage"
    /\ ui.listed
    /\ row \in Rows
    /\ ui.marker # row
    /\ \E k \in Slots :
         /\ FreeSlot(k)
         /\ calls' = [calls EXCEPT ![k] = NewCall("patch", page, row, "")]
         /\ Send(net, httpRequest(CallOwner(k), "PATCH", "/api/admin/users/:id/role", row,
                                  storage, storageDown))
    /\ ui' = [ui EXCEPT !.marker = row, !.error = NoErr]
    /\ late' = {}
    /\ UNCHANGED page
    /\ UNCHANGED <<sessionVars, location>>

\* AdminChildRequestsPage.decide(id, action) up to its await; the buttons of
\* a row are disabled={busyId === r.id}, the rows hidden while loading
decide(row) ==
    /\ page = "AdminChildRequestsPage"
    /\ ui.listed
    /\ ~ui.loadingList
    /\ row \in Rows
    /\ ui.marker # row
    /\ \E k \in Slots :
         /\ FreeSlot(k)
         /\ calls' = [calls EXCEPT ![k] = NewCall("patch", page, row, "")]
         /\ Send(net, httpRequest(CallOwner(k), "PATCH",
                                  "/api/admin/child-requests/:id/:action", row,
                                  storage, storageDown))
    /\ ui' = [ui EXCEPT !.marker = row, !.error = NoErr]
    /\ late' = {}
    /\ UNCHANGED page
    /\ UNCHANGED <<sessionVars, location>>

\* updateRole / decide after the PATCH: await load(), up to the await in load
patchOk(k) ==
    /\ calls[k].pc = "patch"
    /\ \E r \in RequestOf(k) :
         Send(net \ {r}, httpRequest(CallOwner(k), "GET", ListPath(calls[k].page), "",
                                     storage, storageDown))
    /\ SetState(k, LoadStart(calls[k].page, ui), LoadStartSetters(calls[k].page))
    /\ calls' = [calls EXCEPT ![k].pc = "refresh"]
    /\ UNCHANGED page
    /\ UNCHANGED <<sessionVars, location>>

\* updateRole / decide: the PATCH rejected, catch setErr(msg), finally the
\* marker is set to null
patchFail(k, e) ==
    /\ calls[k].pc = "patch"
    /\ responseInterceptor(e).rejected
    /\ \E r \in RequestOf(k) : net' = net \ {r}
    /\ SetState(k, [ui EXCEPT !.error = FailMessage(calls[k].pc), !.marker = ""], {"setErr", "setMarker"})
    /\ calls' = [calls EXCEPT ![k] = IdleCall]
    /\ sent' = {}
    /\ UNCHANGED page
    /\ UNCHANGED <<sessionVars, location>>

\* load() inside updateRole / decide answered, then finally the marker is null
refreshOk(k) ==
    /\ calls[k].pc = "refresh"
    /\ \E r \in RequestOf(k) : net' = net \ {r}
    /\ \E empty \in BOOLEAN :
         SetState(k, [LoadOk(calls[k].page, ui, empty) EXCEPT !.marker = ""],
                  LoadOkSetters(calls[k].page) \cup {"setMarker"})
    /\ calls' = [calls EXCEPT ![k] = IdleCall]
    /\ sent' = {}
    /\ UNCHANGED page
    /\ UNCHANGED <<sessionVars, location>>

\* load() inside updateRole / decide failed: load catches it itself
\* (setErr), then finally the marker is null
refreshFail(k, e) ==
    /\ calls[k].pc = "refresh"
    /\ responseInterceptor(e).rejected
    /\ \E r \in RequestOf(k) : net' = net \ {r}
    /\ SetState(k, [LoadFail(calls[k].page, ui) EXCEPT !.marker = ""],
                LoadFailSetters(calls[k].page) \cup {"setMarker"})
    /\ calls' = [calls EXCEPT ![k] = IdleCall]
    /\ sent' = {}
    /\ UNCHANGED page
    /\ UNCHANGED <<sessionVars, location>>

\* ---------------------------------------------------------------- specification
Init ==
    /\ storage \in Tokens \cup {StaleToken, NoToken}
    /\ storageDown \in BOOLEAN
    /\ user = NoUser
    /\ loading = TRUE
    /\ startup = [pc |-> "init", token |-> NoToken]
    /\ procs = [i \in Procs |-> IdleProc]
    /\ net = {}
    /\ sent = {}
    /\ pageErr = NoErr
    /\ page = "none"
    /\ ui = InitUi
    /\ calls = [k \in Slots |-> IdleCall]
    /\ late = {}
    /\ location = <<>>

Next ==
    \/ startupEffect
    \/ startupThen
    \/ \E e \in ErrorStatus : startupCatch(e)
    \/ \E i \in Procs, a \in Accounts : login(i, a)
    \/ \E i \in Procs : loginExchangeOk(i)
    \/ \E i \in Procs, e \in ErrorStatus : loginExchangeFail(i, e)
    \/ \E i \in Procs : loginMeOk(i)
    \/ \E i \in Procs, e \in ErrorStatus : loginMeFail(i, e)
    \/ \E i \in Procs, a \in Accounts : register(i, a)
    \/ \E i \in Procs : registerOk(i)
    \/ \E i \in Procs, e \in ErrorStatus : registerFail(i, e)
    \/ logout
    \/ pageRequest
    \/ \E status \in ErrorStatus \cup {"200"} : pageResponse(status)
    \/ clientRequest
    \/ clientResponse
    \/ reload

Spec == Init /\ [][Next]_vars

\* the behaviours in which login() is only called by register()
NextRegister ==
    \/ startupEffect
    \/ startupThen
    \/ \E e \in ErrorStatus : startupCatch(e)
    \/ \E i \in Procs : loginExchangeOk(i)
    \/ \E i \in Procs, e \in ErrorStatus : loginExchangeFail(i, e)
    \/ \E i \in Procs : loginMeOk(i)
    \/ \E i \in Procs, e \in ErrorStatus : loginMeFail(i, e)
    \/ \E i \in Procs, a \in Accounts : register(i, a)
    \/ \E i \in Procs : registerOk(i)
    \/ \E i \in Procs, e \in ErrorStatus : registerFail(i, e)
    \/ logout
    \/ pageRequest
    \/ \E status \in ErrorStatus \cup {"200"} : pageResponse(status)
    \/ clientRequest
    \/ clientResponse
    \/ reload

SpecRegister == Init /\ [][NextRegister]_vars

\* one life of the page, from its load on: the mount effect runs, and every
\* request of the startup check is answered with a success or an error
NextRun ==
    \/ startupEffect
    \/ startupThen
    \/ \E e \in ErrorStatus : startupCatch(e)
    \/ \E i \in Procs, a \in Accounts : login(i, a)
    \/ \E i \in Procs : loginExchangeOk(i)
    \/ \E i \in Procs, e \in ErrorStatus : loginExchangeFail(i, e)
    \/ \E i \in Procs : loginMeOk(i)
    \/ \E i \in Procs, e \in ErrorStatus : loginMeFail(i, e)
    \/ \E i \in Procs, a \in Accounts : register(i, a)
    \/ \E i \in Procs : registerOk(i)
    \/ \E i \in Procs, e \in ErrorStatus : registerFail(i, e)
    \/ logout
    \/ pageRequest
    \/ \E status \in ErrorStatus \cup {"200"} : pageResponse(status)
    \/ clientRequest
    \/ clientResponse

SpecRun ==
    /\ Init
    /\ [][NextRun]_vars
    /\ WF_vars(startupEffect)
    /\ WF_vars(startupThen \/ \E e \in ErrorStatus : startupCatch(e))


\* the page components under the session of an administrator who is signed
\* in: the startup check is over and the session takes no step
InitPages ==
    /\ storage = TokenOf["admin@x.com"]
    /\ storageDown = FALSE
    /\ user = User("admin@x.com")
    /\ loading = FALSE
    /\ startup = [pc |-> "doneOk", token |-> NoToken]
    /\ procs = [i \in Procs |-> IdleProc]
    /\ net = {}
    /\ sent = {}
    /\ pageErr = NoErr
    /\ page = "none"
    /\ ui = InitUi
    /\ calls = [k \in Slots |-> IdleCall]
    /\ late = {}
    /\ location = <<>>

\* the rejections a page handler meets: an error answer, or no answer at
\* all; the catch blocks of the pages treat every status alike
PageErrors == {"500", "network"}

NextPages ==
    \/ \E p \in Pages : mount(p)
    \/ unmount
    \/ tick
    \/ \E k \in Slots : loadOk(k)
    \/ \E k \in Slots, e \in PageErrors : loadFail(k, e)
    \/ \E form \in Forms : edit(form)
    \/ \E parent \in {"", "p1"} : selectParent(parent)
    \/ onSubmit
    \/ \E k \in Slots : createOk(k)
    \/ \E k \in Slots, e \in PageErrors : createFail(k, e)
    \/ \E k \in Slots : linkOk(k)
    \/ \E k \in Slots, e \in PageErrors : linkFail(k, e)
    \/ submit
    \/ \E k \in Slots : postOk(k)
    \/ \E k \in Slots, e \in PageErrors : postFail(k, e)
    \/ \E row \in Rows : updateRole(row)
    \/ \E row \in Rows : decide(row)
    \/ \E k \in Slots : patchOk(k)
    \/ \E k \in Slots, e \in PageErrors : patchFail(k, e)
    \/ \E k \in Slots : refreshOk(k)
    \/ \E k \in Slots, e \in PageErrors : refreshFail(k, e)

SpecPages == InitPages /\ [][NextPages]_vars

\* the pages that hold a form, alone: ChildRegisterPage (both versions),
\* ParentRegisterPage and ParentChildRequestPage
NextForms ==
    \/ \E p \in FormPages : mount(p)
    \/ unmount
    \/ \E k \in Slots : loadOk(k)
    \/ \E k \in Slots, e \in PageErrors : loadFail(k, e)
    \/ \E form \in Forms : edit(form)
    \/ \E parent \in {"", "p1"} : selectParent(parent)
    \/ onSubmit
    \/ \E k \in Slots : createOk(k)
    \/ \E k \in Slots, e \in PageErrors : createFail(k, e)
    \/ \E k \in Slots : linkOk(k)
    \/ \E k \in Slots, e \in PageErrors : linkFail(k, e)
    \/ submit
    \/ \E k \in Slots : postOk(k)
    \/ \E k \in Slots, e \in PageErrors : postFail(k, e)

SpecForms == InitPages /\ [][NextForms]_vars

\* every value `user` can take, for every role the backend knows
AllUsers == [email : Accounts, role : Roles] \cup {NoUser}

\* the router under a session that takes no step: any Identity the backend
\* can return, with the startup check still waiting for its answer (loading)
\* or over
InitRoutes ==
    /\ user \in AllUsers
    /\ loading \in BOOLEAN
    /\ storageDown = FALSE
    /\ storage = IF user = NoUser
                 THEN (IF loading THEN StaleToken ELSE NoToken)
                 ELSE TokenOf[user.email]
    /\ startup = IF loading THEN [pc |-> "fetching", token |-> storage]
                 ELSE IF user = NoUser THEN [pc |-> "doneFail", token |-> NoToken]
                 ELSE [pc |-> "doneOk", token |-> NoToken]
    /\ procs = [i \in Procs |-> IdleProc]
    /\ net = IF loading
             THEN {Pending(httpRequest(StartupOwner, "GET", "/api/auth/me", "",
                                       storage, storageDown))}
             ELSE {}
    /\ sent = {}
    /\ pageErr = NoErr
    /\ page = "none"
    /\ ui = InitUi
    /\ calls = [k \in Slots |-> IdleCall]
    /\ late = {}
    /\ location = <<>>

NextRoutes ==
    \/ \E path \in RoutePaths : open(path)
    \/ redirect

SpecRoutes == InitRoutes /\ [][NextRoutes]_vars

\* ---------------------------------------------------------------- properties
\* the requests handed to the network by the step
NewRequests == sent'

\* the value get() of the Token Store returns
TokenStore == getToken(storage, storageDown)

\* C1: when login's token exchange and identity fetch both succeeded, at the
\* step at which login resolves the Identity is the fetched identity and
\* loading is false, in whatever state login was invoked.
C1_LoginResolvesAuthenticated ==
    [][\A i \in Procs :
         (procs[i].pc = "fetchMe" /\ procs'[i].pc = "resolved")
         => /\ \E r \in InFlight(LoginOwner(i), "/api/auth/me") : user' \in meResponse(r)
            /\ loading' = FALSE]_vars

\* C2: in every reachable state an Identity that is present comes with a token
\* in the Token Store.
C2_IdentityImpliesToken ==
    user # NoUser => Truthy(TokenStore)

\* C3: loading is true exactly until the startup identity check has finished
\* (before the mount effect ran or while its fetch is in flight), and once it
\* is false no step of the running page (login, register, logout, a response)
\* sets it back to true.
C3_LoadingOnlyDuringStartup ==
    /\ [](loading <=> startup.pc \in {"init", "fetching"})
    /\ [][(~loading /\ startup'.pc # "init") => ~loading']_vars

C3_Witness ==
    /\ ~loading
    /\ user # NoUser
    /\ startup.pc = "doneFail"
    /\ \E i \in Procs : procs[i].pc = "resolved"

\* C4: when the identity fetch of the startup check fails, with any error,
\* the step that handles the failure leaves Identity absent, loading false
\* and the Token Store empty, no invocation is rejected and nothing is sent.
C4_StartupInvalidToken ==
    [][(startup.pc = "fetching" /\ startup'.pc = "doneFail")
         => /\ Truthy(startup.token)
            /\ user' = NoUser
            /\ loading' = FALSE
            /\ getToken(storage', storageDown') = NoToken
            /\ procs' = procs
            /\ NewRequests = {}]_vars

C4_Witness ==
    /\ startup.pc = "doneFail"
    /\ user = NoUser
    /\ ~loading
    /\ storage = NoToken
    /\ \A i \in Procs : procs[i].pc = "idle"

\* C5: when the identity fetch of the startup check, sent with the stored
\* token T, returns Identity I, the step that handles it sets Identity to
\* exactly I and loading to false and does not touch the Token Store: a
\* store that held T before the step holds T after it.
C5_StartupValidToken ==
    [][(startup.pc = "fetching" /\ startup'.pc = "doneOk")
         => /\ \E r \in InFlight(StartupOwner, "/api/auth/me") :
                 /\ r.auth = Bearer(startup.token)
                 /\ user' \in meResponse(r)
            /\ loading' = FALSE
            /\ storage' = storage
            /\ (TokenStore = startup.token
                  => getToken(storage', storageDown') = startup.token)]_vars

C5_Witness ==
    /\ startup.pc = "doneOk"
    /\ storage \in Tokens
    /\ user = User(AccountOfToken(storage))
    /\ ~loading
    /\ \A i \in Procs : procs[i].pc = "idle"

\* C6: with an empty Token Store the mount effect goes straight to Anonymous:
\* Identity absent, loading false, and no request is handed to the network.
C6_StartupNoToken ==
    [][(startup.pc = "init" /\ ~Truthy(TokenStore) /\ startup' # startup)
         => /\ startup'.pc = "doneNoToken"
            /\ user' = NoUser
            /\ loading' = FALSE
            /\ net = {}
            /\ net' = {}]_vars

C6_Witness ==
    /\ startup.pc = "doneNoToken"
    /\ user = NoUser
    /\ ~loading
    /\ net = {}
    /\ \A i \in Procs : procs[i].pc = "idle"

\* C7: when the token exchange of a login fails, the login rejects with an
\* error, and the step leaves the Token Store, Identity and loading as they
\* were and sends no request (no identity fetch).
C7_LoginFailureNoSideEffect ==
    [][\A i \in Procs :
         (procs[i].pc = "exchange" /\ procs'[i].pc = "rejected")
         => /\ procs'[i].error \in ErrorStatus
            /\ storage' = storage
            /\ user' = user
            /\ loading' = loading
            /\ NewRequests = {}
            /\ InFlight(LoginOwner(i), "/api/auth/me") = {}]_vars

C7_Witness ==
    /\ \E i \in Procs : procs[i].pc = "rejected" /\ procs[i].error = "401"
    /\ storage = TokenOf["admin@x.com"]
    /\ user = User("admin@x.com")
    /\ startup.pc = "doneOk"
    /\ net = {}

\* C8: logout, in whatever state it is called, leaves Identity absent and the
\* Token Store empty in the same step and sends no request.
C8_LogoutSynchronousLocal ==
    [][logout
         => /\ user' = NoUser
            /\ ~Truthy(getToken(storage', storageDown'))
            /\ net' = net
            /\ loading' = loading]_vars

C8_Witness ==
    /\ user = NoUser
    /\ storage = NoToken
    /\ ~storageDown
    /\ startup.pc = "doneNoToken"
    /\ \E i \in Procs : procs[i].pc = "resolved"
    /\ \A i \in Procs : procs[i].pc \in {"idle", "resolved"}
    /\ net = {}

\* C9: every request handed to the network, on whatever path of the
\* application, carries Authorization: Bearer <token> with the token stored at
\* send time when the Token Store holds one, and no Authorization header when
\* it holds none.
C9_HeaderInjection ==
    [][\A r \in NewRequests :
         r.auth = IF Truthy(getToken(storage', storageDown'))
                  THEN Bearer(getToken(storage', storageDown'))
                  ELSE NoHeader]_vars

\* C10: while loading is true each of the three route guards renders the
\* "checking" placeholder, for every value of Identity.
C10_GateWhileLoading ==
    loading =>
      \A u \in AllUsers \cup {user} :
        /\ RequireAuth(u, loading) = "checking"
        /\ RequireAdmin(u, loading) = "checking"
        /\ RequireUser(u, loading) = "checking"

C10_Witness ==
    /\ loading
    /\ user # NoUser
    /\ RequireAdmin(user, loading) = "checking"

\* C11: with loading false and an Identity present, a guard whose exact role
\* the Identity does not have redirects to "/", not to "/login" and not to
\* the protected view.
C11_GateRoleMismatch ==
    ~loading =>
      \A u \in (AllUsers \cup {user}) \ {NoUser} :
        /\ u.role # "ADMIN" => RequireAdmin(u, loading) = "/"
        /\ u.role # "USER" => RequireUser(u, loading) = "/"
        /\ \A p \in AdminPaths : u.role # "ADMIN" => Route(p, u, loading) = "/"
        /\ u.role # "USER" => Route("/user/viewings", u, loading) = "/"

C11_Witness ==
    /\ ~loading
    /\ user = User("user@x.com")
    /\ RequireAdmin(user, loading) = "/"
    /\ RequireUser(User("admin@x.com"), loading) = "/"

\* C12: with loading false and Identity absent, each of the three guards
\* redirects to "/login" and does not render its children.
C12_GateAnonymous ==
    (~loading /\ user = NoUser) =>
      /\ RequireAuth(user, loading) = "/login"
      /\ RequireAdmin(user, loading) = "/login"
      /\ RequireUser(user, loading) = "/login"
      /\ \A p \in AdminPaths \cup {"/me", "/user/viewings"} :
           Route(p, user, loading) = "/login"

C12_Witness ==
    /\ ~loading
    /\ user = NoUser
    /\ startup.pc = "doneFail"
    /\ RequireAuth(user, loading) = "/login"

\* C13: a guard renders its children exactly when loading is false, Identity
\* is present and the requirement is "any authenticated" or the role of the
\* Identity; the routes "/", "/login" and "/register" render in every
\* Session State.
C13_GateRendersExactly ==
    \A l \in {loading, TRUE, FALSE} :
    \A u \in AllUsers \cup {user} :
      /\ RequireAuth(u, l) = "children" <=> (~l /\ u # NoUser)
      /\ RequireAdmin(u, l) = "children" <=> (~l /\ u # NoUser /\ u.role = "ADMIN")
      /\ RequireUser(u, l) = "children" <=> (~l /\ u # NoUser /\ u.role = "USER")
      /\ Route("/me", u, l) = RequireAuth(u, l)
      /\ Route("/user/viewings", u, l) = RequireUser(u, l)
      /\ \A p \in AdminPaths : Route(p, u, l) = RequireAdmin(u, l)
      /\ \A p \in PublicPaths : Route(p, u, l) = "children"

C13_Witness ==
    /\ ~loading
    /\ user = User("user@x.com")
    /\ Route("/user/viewings", user, loading) = "children"
    /\ Route("/me", user, loading) = "children"
    /\ Route("/admin/users", user, loading) = "/"
    /\ Route("/register", user, loading) = "children"


\* the requests proc i hands to the network in the step
NewRequestsOf(i) == {r \in NewRequests : r.owner = LoginOwner(i)}

\* C14: a register whose three requests succeed sends POST /api/auth/register,
\* then POST /api/auth/login with the same credentials, then GET
\* /api/auth/me, each only after the one before was answered; the token the
\* exchange returned is stored and sent with the identity fetch, and register
\* resolves with Identity exactly the fetched one, the store left as the
\* exchange wrote it and, once the startup check is over, loading false.
C14_RegisterThenLogin ==
    [][\A i \in Procs :
         /\ \A r \in NewRequestsOf(i) :
              /\ r.path = "/api/auth/register" => procs[i].pc \in {"idle", "resolved", "rejected"}
              /\ r.path = "/api/auth/login" => procs[i].pc = "creating"
              /\ r.path = "/api/auth/me" => procs[i].pc = "exchange"
         /\ (procs[i].pc = "creating" /\ procs'[i].pc = "exchange")
            => \E q \in InFlight(LoginOwner(i), "/api/auth/register") :
                 /\ q.method = "POST"
                 /\ NewRequestsOf(i) # {}
                 /\ \A r \in NewRequestsOf(i) :
                      r.method = "POST" /\ r.path = "/api/auth/login" /\ r.body = q.body
                 /\ storage' = storage /\ user' = user
         /\ (procs[i].pc = "exchange" /\ procs'[i].pc = "fetchMe" /\ ~storageDown)
            => \E q \in InFlight(LoginOwner(i), "/api/auth/login") :
                 /\ storage' \in loginResponse(q)
                 /\ NewRequestsOf(i) # {}
                 /\ \A r \in NewRequestsOf(i) :
                      r.method = "GET" /\ r.path = "/api/auth/me" /\ r.auth = Bearer(storage')
         /\ (procs[i].pc = "fetchMe" /\ procs'[i].pc = "resolved")
            => \E q \in InFlight(LoginOwner(i), "/api/auth/me") :
                 /\ user' \in meResponse(q)
                 /\ storage' = storage
                 /\ NewRequests = {}
                 /\ startup.pc \notin {"init", "fetching"} => ~loading'
                 /\ q.auth = Bearer(TokenStore)
                    => user' = User(AccountOfToken(getToken(storage', storageDown')))]_vars

C14_Witness ==
    /\ procs[1].pc = "resolved"
    /\ \A i \in Procs \ {1} : procs[i].pc = "idle"
    /\ startup.pc = "doneNoToken"
    /\ ~storageDown
    /\ ~loading
    /\ user = User("user@x.com")
    /\ storage = TokenOf["user@x.com"]
    /\ net = {}

\* C15: when the account creation of a register fails, register rejects with
\* an error and the step sends no request (no login), and leaves the Token
\* Store, Identity and loading as they were.
C15_RegisterFailureNoSideEffect ==
    [][\A i \in Procs :
         (procs[i].pc = "creating" /\ procs'[i].pc = "rejected")
         => /\ procs'[i].error \in ErrorStatus
            /\ NewRequests = {}
            /\ \A r \in net' : r.owner # LoginOwner(i)
            /\ storage' = storage
            /\ user' = user
            /\ loading' = loading]_vars

C15_Witness ==
    /\ procs[1].pc = "rejected" /\ procs[1].error = "500"
    /\ \A i \in Procs \ {1} : procs[i].pc = "idle"
    /\ startup.pc = "doneNoToken"
    /\ ~storageDown
    /\ user = NoUser
    /\ storage = NoToken
    /\ net = {}

\* C16: when the identity fetch of a login fails after its exchange succeeded,
\* login rejects with an error and the step leaves the stored token and the
\* Identity as they were; a page load keeps the store, its startup check
\* sends the identity fetch with the stored token, and a successful answer
\* makes the session Authenticated.
C16_LoginHalfwaySelfHeals ==
    [][/\ \A i \in Procs :
            (procs[i].pc = "fetchMe" /\ procs'[i].pc = "rejected")
            => /\ procs'[i].error \in ErrorStatus
               /\ storage' = storage
               /\ user' = user
               /\ loading' = loading
               /\ NewRequests = {}
       /\ (startup.pc # "init" /\ startup'.pc = "init")
            => storage' = storage /\ storageDown' = storageDown /\ user' = NoUser /\ loading'
       /\ (startup.pc = "init" /\ startup'.pc # "init" /\ Truthy(TokenStore))
            => /\ startup' = [pc |-> "fetching", token |-> TokenStore]
               /\ NewRequests =
                    {[owner |-> StartupOwner, method |-> "GET", path |-> "/api/auth/me",
                      body |-> "", auth |-> Bearer(TokenStore)]}
       /\ (startup.pc = "fetching" /\ startup'.pc = "doneOk")
            => /\ user' = User(AccountOfToken(startup.token))
               /\ ~loading']_vars

C16_Witness ==
    /\ procs[1].pc = "rejected"
    /\ \A i \in Procs \ {1} : procs[i].pc = "idle"
    /\ startup.pc = "doneNoToken"
    /\ ~storageDown
    /\ user = NoUser
    /\ storage \in Tokens
    /\ net = {}


\* the values setToken may be called with
StoreInputs == Tokens \cup {StaleToken, NoToken, ""}

\* C17: in every state of the store, while localStorage works get() after
\* set(t) returns t for a non-empty t; get() after set(absent), set("") or
\* clear() returns absent; clear() leaves what set(absent) leaves; set and
\* clear are idempotent; and of two calls in a row the last one decides what
\* get() returns.
C17_TokenStoreRoundTrip ==
    \A t \in StoreInputs :
      LET s1 == setToken(storage, storageDown, t)
          c1 == clearToken(storage, storageDown)
      IN  /\ (Truthy(t) /\ ~storageDown) => getToken(s1, storageDown) = t
          /\ ~Truthy(t) => getToken(s1, storageDown) = NoToken
          /\ getToken(c1, storageDown) = NoToken
          /\ c1 = setToken(storage, storageDown, NoToken)
          /\ c1 = setToken(storage, storageDown, "")
          /\ setToken(s1, storageDown, t) = s1
          /\ clearToken(c1, storageDown) = c1
          /\ \A t2 \in StoreInputs :
               /\ getToken(setToken(s1, storageDown, t2), storageDown)
                    = getToken(setToken(storage, storageDown, t2), storageDown)
               /\ getToken(setToken(c1, storageDown, t2), storageDown)
                    = getToken(setToken(storage, storageDown, t2), storageDown)
          /\ getToken(clearToken(s1, storageDown), storageDown) = NoToken

C17_Witness ==
    /\ ~storageDown
    /\ startup.pc = "doneNoToken"
    /\ storage \in Tokens
    /\ getToken(storage, storageDown) = storage
    /\ \E i \in Procs : procs[i].pc = "fetchMe"

\* C18: get(), set() and clear() never raise: with localStorage throwing,
\* get() returns absent and set()/clear() return normally with the store as
\* it was; a login whose exchange succeeded goes on to its identity fetch and
\* is never rejected by the storage failure.
C18_TokenStoreNeverRaises ==
    /\ [](\A t \in StoreInputs :
            /\ getToken(storage, storageDown) # Throws
            /\ setToken(storage, storageDown, t) # Throws
            /\ clearToken(storage, storageDown) # Throws
            /\ storageDown => /\ getItem(storage, storageDown) = Throws
                              /\ getToken(storage, storageDown) = NoToken
                              /\ setToken(storage, storageDown, t) = storage
                              /\ clearToken(storage, storageDown) = storage)
    /\ [][\A i \in Procs :
            /\ procs'[i].pc = "rejected" => procs'[i].error \in ErrorStatus
            /\ (procs[i].pc = "exchange" /\ procs'[i].pc = "fetchMe")
                 => \E r \in net' : r.owner = LoginOwner(i) /\ r.path = "/api/auth/me"]_vars

C18_Witness ==
    /\ storageDown
    /\ procs[1].pc = "fetchMe"
    /\ \E r \in InFlight(LoginOwner(1), "/api/auth/me") : r.auth = NoHeader

\* C19: an error response (401 or any other) handled outside the startup
\* check reaches the caller as that error and the step leaves the Token
\* Store, Identity and loading as they were.
C19_GatewayPassesErrorsThrough ==
    [][/\ \A e \in ErrorStatus :
            responseInterceptor(e) = [rejected |-> TRUE, status |-> e]
       /\ (InFlight(PageOwner, DomainPath) # {} /\ PageIdle' /\ startup'.pc # "init")
            => /\ pageErr' \in {pageErr, ErrMessage("401")}
               /\ storage' = storage /\ user' = user /\ loading' = loading
               /\ procs' = procs
       /\ \A i \in Procs :
            (procs[i].pc \in {"creating", "exchange", "fetchMe"} /\ procs'[i].pc = "rejected")
            => /\ procs'[i].error \in ErrorStatus
               /\ storage' = storage /\ user' = user /\ loading' = loading]_vars

C19_Witness ==
    /\ pageErr # NoErr
    /\ PageIdle
    /\ ~loading
    /\ user = User("admin@x.com")
    /\ storage = TokenOf["admin@x.com"]
    /\ RequireAdmin(user, loading) = "children"

\* C20 as stated: the identity fetch of a login is sent only after its
\* exchange was answered and the token stored, never while the exchange is in
\* flight, and while it is in flight no competing login or logout takes a step.
C20_NoCompetingStep ==
    /\ [](\A i \in Procs :
            InFlight(LoginOwner(i), "/api/auth/me") # {}
            => procs[i].pc = "fetchMe" /\ InFlight(LoginOwner(i), "/api/auth/login") = {})
    /\ [][\A i \in Procs :
            (procs[i].pc = "fetchMe" /\ procs'[i].pc = "fetchMe")
            => /\ \A j \in Procs \ {i} : procs'[j] = procs[j]
               /\ ~logout]_vars

\* C20 as amended: the identity fetch of a login is sent only in the step
\* that handles the answer of its exchange and stores the token, with the
\* header read after the store was written, and never while the exchange is
\* in flight; steps of a competing login or of logout may come before the
\* identity fetch is answered.
C20_FetchSequencedAfterExchange ==
    /\ [](\A i \in Procs :
            InFlight(LoginOwner(i), "/api/auth/me") # {}
            => procs[i].pc = "fetchMe" /\ InFlight(LoginOwner(i), "/api/auth/login") = {})
    /\ [][\A i \in Procs : \A r \in NewRequestsOf(i) :
            r.path = "/api/auth/me"
            => /\ procs[i].pc = "exchange"
               /\ \E q \in InFlight(LoginOwner(i), "/api/auth/login") :
                    /\ q \notin net'
                    /\ ~storageDown => storage' \in loginResponse(q)
               /\ r.auth = requestInterceptor(storage', storageDown')]_vars

C20_Witness ==
    /\ procs[1].pc = "fetchMe"
    /\ procs[2].pc = "exchange"
    /\ ~storageDown
    /\ \E r \in InFlight(LoginOwner(1), "/api/auth/me") : r.auth # Bearer(storage)


C22_TokenMatchesIdentity ==
    ( /\ startup.pc = "doneNoToken"
      /\ ~storageDown
      /\ \A i \in Procs : procs[i].pc \in {"idle", "resolved"}
      /\ \E i \in Procs : procs[i].pc = "resolved"
      /\ user # NoUser
      /\ TokenStore \in Tokens )
    => user = User(AccountOfToken(TokenStore))

\* C23: when the startup identity fetch fails after a login has stored a
\* token of its own (the store no longer holds the token the startup check
\* read), the step leaves the Token Store and the Identity as they were.
C23_StartupFailureSparesLogin ==
    [][(startup.pc = "fetching" /\ startup'.pc = "doneFail" /\ TokenStore # startup.token)
         => storage' = storage /\ user' = user]_vars

\* C27: when the mount effect runs and every request of the startup check is
\* answered, from every content of the Token Store loading becomes false and
\* stays false, the startup check being over with the Identity absent or one
\* of the identities of the backend.
C27_StartupTerminates ==
    <>[](/\ ~loading
         /\ startup.pc \in {"doneNoToken", "doneOk", "doneFail"}
         /\ user \in Users \cup {NoUser})

C27_Witness ==
    /\ ~loading
    /\ startup.pc = "doneFail"
    /\ storage = NoToken
    /\ InFlight(StartupOwner, "/api/auth/me") = {}
    /\ \E i \in Procs : procs[i].pc = "exchange"

\* C28: with loading false, from every route path and for every Identity the
\* redirects of the gates and of the /parent/viewings alias end at a rendered
\* view after at most two redirects and never come back to a path already
\* visited; the redirect targets / and /login render without a gate, and a
\* PARENT identity that opens /parent/viewings ends on /. The router's own
\* steps follow the same trail.
C28_RedirectsTerminate ==
    ~loading =>
      /\ \A u \in AllUsers :
            Route("/", u, loading) = "children" /\ Route("/login", u, loading) = "children"
      /\ \A u \in AllUsers : \A path \in RoutePaths :
          \A trail \in {Navigate(path, u, loading, MaxHops)} :
            /\ Len(trail) <= 3
            /\ Route(trail[Len(trail)], u, loading) = "children"
            /\ \A m, n \in 1..Len(trail) : m # n => trail[m] # trail[n]
            /\ Len(trail) > 1 => trail[Len(trail)] \in {"/", "/login", "/user/viewings"}
            /\ trail[Len(trail)] = "/user/viewings" => (u # NoUser /\ u.role = "USER")
            /\ (u # NoUser /\ u.role = "PARENT" /\ path = "/parent/viewings")
                 => trail = <<"/parent/viewings", "/user/viewings", "/">>
      /\ Len(location) <= 3
      /\ \A m, n \in 1..Len(location) : m # n => location[m] # location[n]
      /\ location # <<>>
           => location = SubSeq(Navigate(location[1], user, loading, MaxHops),
                                1, Len(location))
      /\ (location # <<>> /\ ~ENABLED redirect)
           => Route(location[Len(location)], user, loading) = "children"

C28_Witness ==
    /\ ~loading
    /\ user # NoUser
    /\ user.role = "PARENT"
    /\ location = <<"/parent/viewings", "/user/viewings", "/">>
    /\ ~ENABLED redirect

\* C24: every step in which a mounted page handles the failure of one of its
\* requests (a list load, a submit, a row action) ends with an error message
\* in the error state of the page.
C24_FailuresSurface ==
    [][\A k \in Slots :
         ( /\ calls[k].mounted
           /\ \E e \in ErrorStatus :
                \/ loadFail(k, e) \/ createFail(k, e) \/ linkFail(k, e)
                \/ postFail(k, e) \/ patchFail(k, e) \/ refreshFail(k, e) )
         => ui'.error # NoErr]_vars

\* C25: a POST of a form page leaves only with a form that passes the field
\* check of the page; a submit of ParentRegisterPage or ParentChildRequestPage
\* with a form that fails it shows the validation message, hands nothing to
\* the network, starts no handler and leaves busy false and the form as
\* entered.
C25_InvalidFormStaysLocal ==
    [][/\ \A r \in NewRequests :
            (r.method = "POST" /\ page \in FormPages)
            => FormValid(page, ui.form) /\ r.body = ui.form /\ ~ui.busy
       /\ ( /\ page \in SubmitPages /\ page' = page
            /\ ~FormValid(page, ui.form)
            /\ calls' = calls
            /\ ui' # ui /\ ui'.form = ui.form )
          => /\ ui' = [ui EXCEPT !.error = ValidationMessage(page)]
             /\ ~ui'.busy
             /\ NewRequests = {}
             /\ net' = net]_vars

C25_Witness ==
    /\ page = "ParentRegisterPage"
    /\ ui.form = "spaces"
    /\ ui.error = ValidationMessage(page)
    /\ ~ui.busy
    /\ net = {}

\* C26: a handler that resumes after its component was unmounted calls no
\* setter and sends no request, and a handler is only started (by the mount
\* effect, the polling timer or an event) for the page that is mounted.
C26_NothingAfterUnmount ==
    [][\A k \in Slots :
         /\ (calls[k].pc # "idle" /\ ~calls[k].mounted /\ calls'[k] # calls[k])
              => late' = {} /\ NewRequests = {}
         /\ (calls[k].pc = "idle" /\ calls'[k].pc # "idle")
              => calls'[k].mounted /\ calls'[k].page = page' /\ page' # "none"]_vars

\* C29: on ChildRegisterPage `created` is set only by the step that ends a
\* submit whose create succeeded and whose link was not asked for or
\* succeeded, and that step resets the form; while the link is awaited nothing
\* is reported; a failed link shows an error, leaves created empty and the
\* form as entered; created is never shown next to an error or a submit in
\* progress.
C29_CreatedOnlyAfterLink ==
    /\ [](page \in ChildPages /\ ui.created # ""
            => /\ ui.error = NoErr
               /\ ~ui.busy
               /\ \A k \in Slots : calls[k].mounted => calls[k].pc \notin {"create", "link"})
    /\ [][\A k \in Slots :
            (calls[k].mounted /\ calls[k].page \in ChildPages)
            => /\ (calls[k].pc = "create" /\ calls'[k].pc = "link")
                    => /\ calls[k].parent # ""
                       /\ ui' = ui
                       /\ \E r \in NewRequests : r.method = "PATCH" /\ r.body = calls[k].parent
               /\ (calls[k].pc = "create" /\ calls'[k].pc = "idle" /\ ui'.error = NoErr)
                    => calls[k].parent = ""
               /\ (calls[k].pc \in {"create", "link"} /\ calls'[k].pc = "idle")
                    => \/ /\ ui'.error = NoErr
                          /\ ui'.created = "c1" /\ ui'.form = "blank" /\ ~ui'.busy
                       \/ /\ ui'.error = FailMessage(calls[k].pc)
                          /\ ui'.created = "" /\ ui'.form = ui.form /\ ~ui'.busy]_vars

C29_Witness ==
    /\ page = "ChildRegisterPage"
    /\ ui.parent = "p1"
    /\ ui.error = FailMessage("link")
    /\ ui.created = ""
    /\ ui.form = "good"
    /\ ~ui.busy

\* C30: on the admin list pages the marker (saving / busyId) is the id of
\* every row that has a request of updateRole / decide in flight, the PATCH
\* or the reload after it.
C30_MarkerCoversRowInFlight ==
    \A k \in Slots :
      (calls[k].mounted /\ calls[k].page \in RowPages /\ calls[k].pc \in {"patch", "refresh"})
      => ui.marker = calls[k].row

====
